---- MODULE Spec2Model ----
(***************************************************************************)
(* The EvoAI agent pipeline (src/src/graph_langgraph.py) and its domain    *)
(* tools (src/src/tools.py) as a state machine.  One behaviour is one      *)
(* invocation of run_agent: the request state threaded through the five    *)
(* stages router, tool_selector, policy_guard, responder, trace.           *)
(*                                                                         *)
(* Text is modelled as a sequence of one-character strings, so that        *)
(* lower-casing, substring containment and the regular expressions of the  *)
(* code are computed on characters, as the code computes them.             *)
(***************************************************************************)
EXTENDS Integers, Sequences, FiniteSets, TLC

(***************************************************************************)
(* Bounds of the model.                                                    *)
(***************************************************************************)
\* A prompt is the concatenation of at most MaxFragments fragments.
MaxFragments == 2

(***************************************************************************)
(* Characters and text.                                                    *)
(***************************************************************************)
LowerSeq == <<"a","b","c","d","e","f","g","h","i","j","k","l","m","n","o","p","q","r","s","t","u","v","w","x","y","z">>

UpperSeq == <<"A","B","C","D","E","F","G","H","I","J","K","L","M","N","O","P","Q","R","S","T","U","V","W","X","Y","Z">>

Range(s) == {s[i] : i \in 1..Len(s)}

LowerLetters == Range(LowerSeq)

UpperLetters == Range(UpperSeq)

Letters == LowerLetters \cup UpperLetters

Digits == Range(<<"0","1","2","3","4","5","6","7","8","9">>)

\* \s of the regular expressions
SpaceChars == {" ", "\t", "\n"}

IsSpace(c) == c \in SpaceChars

IsDigit(c) == c \in Digits

IsLetter(c) == c \in Letters

\* \w of the regular expressions; \b is a change of IsWord between neighbours
WordChars == Letters \cup Digits \cup {"_"}

IsWord(c) == c \in WordChars

\* str.lower() on one character
LowerChar(c) ==
  IF c \in UpperLetters
  THEN LowerSeq[CHOOSE i \in 1..Len(UpperSeq) : UpperSeq[i] = c]
  ELSE c

\* str.lower()
Lower(s) == [i \in 1..Len(s) |-> LowerChar(s[i])]

\* k in s  (substring containment)
Contains(s, k) ==
  \E i \in 1..(Len(s) - Len(k) + 1) : SubSeq(s, i, i + Len(k) - 1) = k

\* s.startswith(k)
StartsWith(s, k) == Len(s) >= Len(k) /\ SubSeq(s, 1, Len(k)) = k

\* str.strip()
RECURSIVE LStrip(_)
LStrip(s) == IF s # <<>> /\ IsSpace(Head(s)) THEN LStrip(Tail(s)) ELSE s

RECURSIVE RStrip(_)
RStrip(s) ==
  IF s # <<>> /\ IsSpace(s[Len(s)]) THEN RStrip(SubSeq(s, 1, Len(s) - 1)) ELSE s

Strip(s) == RStrip(LStrip(s))

\* the last index of the run of characters of class C that starts at i
\* (i - 1 when s[i] is not in C): the greedy C* of a regular expression
RECURSIVE RunEnd(_, _, _)
RunEnd(s, i, C) ==
  IF i <= Len(s) /\ s[i] \in C THEN RunEnd(s, i + 1, C) ELSE i - 1

\* the first index of the run of characters of class C that ends at i
\* (i + 1 when s[i] is not in C)
RECURSIVE RunStart(_, _, _)
RunStart(s, i, C) ==
  IF i >= 1 /\ s[i] \in C THEN RunStart(s, i - 1, C) ELSE i + 1

DigitValue(c) == CHOOSE d \in 0..9 : <<"0","1","2","3","4","5","6","7","8","9">>[d + 1] = c

\* float(<digits>) / the numeric value of a run of decimal digits
RECURSIVE DigitsToInt(_)
DigitsToInt(s) ==
  IF s = <<>> THEN 0
  ELSE 10 * DigitsToInt(SubSeq(s, 1, Len(s) - 1)) + DigitValue(s[Len(s)])

\* the least element of a non-empty set of integers
Min(S) == CHOOSE x \in S : \A y \in S : x <= y

Max(S) == CHOOSE x \in S : \A y \in S : x >= y

(***************************************************************************)
(* Optional values: a key absent from the state dictionary, a key holding  *)
(* None, and a key holding a value.                                        *)
(***************************************************************************)
Absent == [st |-> "absent"]

None == [st |-> "none"]

Val(x) == [st |-> "val", v |-> x]

IsVal(f) == f.st = "val"

(***************************************************************************)
(* The data store read by the domain tools (data/products.json and         *)
(* data/orders.json): read-only reference data, re-read on every call.     *)
(* Times are seconds since 2025-09-06T00:00:00Z plus microseconds.         *)
(***************************************************************************)
\* An ISO-8601 text: whether datetime.fromisoformat accepts it, the instant
\* it names (UTC seconds, microseconds), and its zone suffix:
\* "Z", "+00:00" or "" (none: a naive local time).
IsoText(ok, sec, us, tz) == [ok |-> ok, sec |-> sec, us |-> us, tz |-> tz]

ORDERS ==
  << [order_id |-> <<"A","1","0","0","2">>, email |-> <<"a","l","e","x","@","e","x","a","m","p","l","e",".","c","o","m">>,
      created_at |-> IsoText(TRUE, 47100, 0, "Z")],
     [order_id |-> <<"A","1","0","0","3">>, email |-> <<"m","i","r","a","@","e","x","a","m","p","l","e",".","c","o","m">>,
      created_at |-> IsoText(TRUE, 129300, 0, "Z")] >>

PRODUCTS ==
  << [id |-> <<"P","1">>, title |-> <<"M","i","d","i"," ","W","r","a","p"," ","D","r","e","s","s">>, price |-> 119,
      sizes |-> <<"S", "M", "L">>, tags |-> <<<<"w","e","d","d","i","n","g">>, <<"m","i","d","i">>>>,
      color |-> <<"C","h","a","r","c","o","a","l">>],
     [id |-> <<"P","3">>, title |-> <<"K","n","i","t"," ","B","o","d","y","c","o","n">>, price |-> 89,
      sizes |-> <<"XS", "S", "M">>, tags |-> <<<<"p","a","r","t","y">>>>,
      color |-> <<"B","l","a","c","k">>],
     [id |-> <<"P","2">>, title |-> <<"S","a","t","i","n"," ","S","l","i","p"," ","D","r","e","s","s">>, price |-> 99,
      sizes |-> <<"XS", "S", "M">>, tags |-> <<<<"w","e","d","d","i","n","g">>, <<"m","i","d","i">>>>,
      color |-> <<"B","l","u","s","h">>],
     [id |-> <<"P","5">>, title |-> <<"L","a","c","e"," ","M","i","d","i"," ","D","r","e","s","s">>, price |-> 99,
      sizes |-> <<"M", "L">>, tags |-> <<<<"W","e","d","d","i","n","g">>, <<"m","i","d","i">>, <<"l","a","c","e">>>>,
      color |-> <<"I","v","o","r","y">>],
     [id |-> <<"P","4">>, title |-> <<"A","-","L","i","n","e"," ","D","a","y"," ","D","r","e","s","s">>, price |-> 75,
      sizes |-> <<"M", "L">>, tags |-> <<<<"d","a","y","w","e","a","r">>, <<"m","i","d","i">>>>,
      color |-> <<"N","a","v","y">>] >>

(***************************************************************************)
(* tools.py                                                                *)
(***************************************************************************)
\* parse_iso: a trailing Z becomes +00:00, then datetime.fromisoformat.
\* The result is an error (ValueError) or a datetime, aware or naive.
parse_iso(ts) ==
  LET tz == IF ts.tz = "Z" THEN "+00:00" ELSE ts.tz
  IN  IF ~ts.ok THEN [err |-> "ValueError"]
      ELSE [err |-> "", sec |-> ts.sec, us |-> ts.us, aware |-> (tz # "")]

\* utcnow reading the real-time clock whatever NOW_ISO holds
utcnow_clock_only(env, clock) ==
  [err |-> "", sec |-> clock.sec, us |-> clock.us, aware |-> TRUE]

\* utcnow: NOW_ISO, when set and not empty, takes precedence over the
\* real-time clock (an aware UTC reading)
utcnow(env, clock) ==
  IF env.kind = "text"
  THEN parse_iso(env.iso)
  ELSE [err |-> "", sec |-> clock.sec, us |-> clock.us, aware |-> TRUE]

\* re.findall(r"[a-z0-9]+", q): the maximal runs of lower-case letters and
\* digits, left to right
TokenChars == LowerLetters \cup Digits

RECURSIVE TokensFrom(_, _)
TokensFrom(q, i) ==
  IF i > Len(q) THEN <<>>
  ELSE IF q[i] \notin TokenChars THEN TokensFrom(q, i + 1)
  ELSE LET e == RunEnd(q, i, TokenChars)
       IN  <<SubSeq(q, i, e)>> \o TokensFrom(q, e + 1)

Tokens(q) == TokensFrom(q, 1)

\* sep.join(parts)
RECURSIVE Join(_, _)
Join(parts, sep) ==
  IF parts = <<>> THEN <<>>
  ELSE IF Len(parts) = 1 THEN parts[1]
  ELSE parts[1] \o sep \o Join(Tail(parts), sep)

STOP_WORDS ==
  { <<"u","n","d","e","r">>, <<"l","e","s","s">>, <<"b","u","d","g","e","t">>, <<"m">>, <<"l">>, <<"x","l">>, <<"s">>, <<"e","t","a">>,
    <<"t","o">>, <<"g","u","e","s","t">>, <<"b","e","t","w","e","e","n">>, <<"i","m">>, <<"i">>, <<"z","i","p">> }

\* matches(item) without the test of the price ceiling
MatchesIgnoringCeiling(item, tokens, price_max, tags) ==
  IF tags.st = "val" /\ tags.v # <<>>
  THEN {Lower(t) : t \in Range(tags.v)} \subseteq
         {Lower(t) : t \in Range(item.tags)}
  ELSE IF tokens # <<>>
  THEN LET hay == Lower(Join(<<item.title, Join(item.tags, <<" ">>),
                               item.color>>, <<" ">>))
           meaningful == {tok \in Range(tokens) : tok \notin STOP_WORDS}
       IN  IF meaningful # {} THEN \E tok \in meaningful : Contains(hay, tok)
           ELSE TRUE
  ELSE TRUE

\* matches(item) of product_search
Matches(item, tokens, price_max, tags) ==
  IF price_max.st = "val" /\ item.price > price_max.v THEN FALSE
  ELSE IF tags.st = "val" /\ tags.v # <<>>
  THEN {Lower(t) : t \in Range(tags.v)} \subseteq
         {Lower(t) : t \in Range(item.tags)}
  ELSE IF tokens # <<>>
  THEN LET hay == Lower(Join(<<item.title, Join(item.tags, <<" ">>),
                               item.color>>, <<" ">>))
           meaningful == {tok \in Range(tokens) : tok \notin STOP_WORDS}
       IN  IF meaningful # {} THEN \E tok \in meaningful : Contains(hay, tok)
           ELSE TRUE
  ELSE TRUE

\* the order of characters (code points) of identifiers
CharOrder == <<"0","1","2","3","4","5","6","7","8","9">> \o UpperSeq \o LowerSeq

Ord(c) == CHOOSE i \in 1..Len(CharOrder) : CharOrder[i] = c

\* a < b for strings
RECURSIVE StrLess(_, _)
StrLess(a, b) ==
  IF b = <<>> THEN FALSE
  ELSE IF a = <<>> THEN TRUE
  ELSE IF Head(a) = Head(b) THEN StrLess(Tail(a), Tail(b))
  ELSE Ord(Head(a)) < Ord(Head(b))

\* (x["price"], x["id"]) < (y["price"], y["id"])
KeyLess(x, y) == x.price < y.price \/ (x.price = y.price /\ StrLess(x.id, y.id))

\* list.sort(key=...): stable, ascending by key
RECURSIVE InsertSorted(_, _)
InsertSorted(x, sorted) ==
  IF sorted = <<>> THEN <<x>>
  ELSE IF KeyLess(x, Head(sorted)) THEN <<x>> \o sorted
  ELSE <<Head(sorted)>> \o InsertSorted(x, Tail(sorted))

RECURSIVE SortByPriceId(_)
SortByPriceId(items) ==
  IF items = <<>> THEN <<>>
  ELSE InsertSorted(items[Len(items)],
                    SortByPriceId(SubSeq(items, 1, Len(items) - 1)))

\* [it for it in items if pred]
RECURSIVE Filter(_, _, _, _)
Filter(items, tokens, price_max, tags) ==
  IF items = <<>> THEN <<>>
  ELSE (IF Matches(Head(items), tokens, price_max, tags)
        THEN <<Head(items)>> ELSE <<>>)
       \o Filter(Tail(items), tokens, price_max, tags)

product_search(query, price_max, tags) ==
  SortByPriceId(Filter(PRODUCTS, Tokens(Lower(query)), price_max, tags))

size_recommender(user_inputs) ==
  LET text == Lower(user_inputs)
  IN  IF Contains(text, <<"l","o","o","s","e">>) \/ Contains(text, <<"o","v","e","r","s","i","z","e","d">>)
      THEN [recommended |-> "L", rationale |-> "looser fit"]
      ELSE [recommended |-> "M", rationale |-> "between M and L"]

eta(zip_code) ==
  LET window ==
        IF StartsWith(zip_code, <<"5","6">>) THEN "3-5 business days"
        ELSE IF \E p \in { <<"1","0">>, <<"1","1">>, <<"1","2">> } : StartsWith(zip_code, p)
        THEN "2-3 business days"
        ELSE "2-5 business days"
  IN  [zip |-> zip_code, eta_window |-> window]

\* the first order of the data store satisfying a match, or None
RECURSIVE FirstOrder(_, _, _)
FirstOrder(orders, order_id, email) ==
  IF orders = <<>> THEN None
  ELSE IF /\ Lower(Head(orders).order_id) = Lower(order_id)
          /\ (email.st = "val" => Lower(Head(orders).email) = Lower(email.v))
  THEN Val(Head(orders))
  ELSE FirstOrder(Tail(orders), order_id, email)

\* order_lookup matching on the order id alone
order_lookup_by_id(order_id, email) == FirstOrder(ORDERS, order_id, None)

order_lookup(order_id, email) == FirstOrder(ORDERS, order_id, Val(email))

\* the cancellation window of order_cancel, in minutes
CANCEL_WINDOW_MIN == 60

\* (now - created): whole seconds and microseconds (0..999999) of the
\* difference of two aware datetimes
Elapsed(now, created) ==
  LET ds == now.sec - created.sec
      dus == now.us - created.us
  IN  IF dus < 0 THEN [sec |-> ds - 1, us |-> dus + 1000000]
      ELSE [sec |-> ds, us |-> dus]

\* the comparison made on whole seconds, dropping the microseconds
WithinWindowTruncated(el) == el.sec <= CANCEL_WINDOW_MIN * 60

\* the comparison written delta < 60.0
WithinWindowStrict(el) == el.sec < CANCEL_WINDOW_MIN * 60

\* delta <= 60.0 + 1e-9 with delta = total_seconds() / 60.0.  In units of
\* 1e-8 s the comparison is (sec - 3600) * 1e8 + us * 100 <= 6 (1e-9 min is
\* 6e-8 s); it is decided on the seconds first, so that no product leaves
\* the machine integers.
WithinWindow(el) ==
  LET limit == CANCEL_WINDOW_MIN * 60
  IN  \/ el.sec < limit
      \/ el.sec = limit /\ el.us * 100 <= 6

\* f"{delta:.1f}": delta in tenths of a minute, rounded to the nearest
\* (a tenth of a minute is 6 s; an exact tie follows the binary value of
\* the quotient, and no clock value of the model produces one)
Tenths(el) == (el.sec + 3) \div 6

\* order_cancel(order_id, timestamp_iso) given NOW_ISO and the clock
\* reading: an error, or the decision together with the evaluation time.
order_cancel(order_id, timestamp_iso, env, clock) ==
  LET order == FirstOrder(ORDERS, order_id, None)
  IN  IF order.st # "val"
      THEN [err |-> "",
            decision |-> [cancel_allowed |-> FALSE,
                          reason |-> [text |-> "order_not_found", tenths |-> 0]],
            now |-> None]
      ELSE
        LET created == parse_iso(order.v.created_at)
            now == IF timestamp_iso.st = "val" THEN parse_iso(timestamp_iso.v)
                   ELSE utcnow(env, clock)
        IN  IF created.err # "" THEN [err |-> created.err]
            ELSE IF now.err # "" THEN [err |-> now.err]
            ELSE IF now.aware # created.aware THEN [err |-> "TypeError"]
            ELSE
              LET el == Elapsed(now, created)
              IN  [err |-> "",
                   decision |->
                     IF WithinWindow(el)
                     THEN [cancel_allowed |-> TRUE,
                           reason |-> [text |-> "within_60_min",
                                       tenths |-> Tenths(el)]]
                     ELSE [cancel_allowed |-> FALSE,
                           reason |-> [text |-> ">60 min",
                                       tenths |-> Tenths(el)]],
                   now |-> Val([sec |-> now.sec, us |-> now.us])]

(***************************************************************************)
(* The extraction patterns of tool_selector_node.                          *)
(***************************************************************************)
\* re.search(r"under\s*\$?\s*(\d+)", low): the index of the first digit of
\* group 1 for a match starting at i, or 0 when there is no match at i
UnderMatchAt(low, i) ==
  IF SubSeq(low, i, i + 4) # <<"u","n","d","e","r">> THEN 0
  ELSE LET j == RunEnd(low, i + 5, SpaceChars) + 1
           k == IF j <= Len(low) /\ low[j] = "$"
                THEN RunEnd(low, j + 1, SpaceChars) + 1 ELSE j
       IN  IF k <= Len(low) /\ IsDigit(low[k]) THEN k ELSE 0

\* price_cap: float(m.group(1)) of the leftmost match, or None
PriceCap(low) ==
  LET starts == {i \in 1..(Len(low) - 4) : UnderMatchAt(low, i) # 0}
  IN  IF starts = {} THEN None
      ELSE LET k == UnderMatchAt(low, Min(starts))
           IN  Val(DigitsToInt(SubSeq(low, k, RunEnd(low, k, Digits))))

\* tags: "wedding" and "midi" by containment in the lower-cased prompt
TagsOf(low) ==
  (IF Contains(low, <<"w","e","d","d","i","n","g">>) THEN << <<"w","e","d","d","i","n","g">> >> ELSE <<>>)
  \o (IF Contains(low, <<"m","i","d","i">>) THEN << <<"m","i","d","i">> >> ELSE <<>>)

\* \b before index i (i in 1..Len+1): the characters on its two sides
\* differ in being word characters
BoundaryBefore(s, i) ==
  LET left == i > 1 /\ IsWord(s[i - 1])
      right == i <= Len(s) /\ IsWord(s[i])
  IN  left # right

\* re.search(r"(\b\d{5,6}\b)", prompt): the length (6 preferred to 5) of the
\* match starting at i, or 0
ZipMatchAt(s, i) ==
  LET digitsTo(n) == i + n - 1 <= Len(s)
                     /\ \A j \in i..(i + n - 1) : IsDigit(s[j])
  IN  IF ~BoundaryBefore(s, i) THEN 0
      ELSE IF digitsTo(6) /\ BoundaryBefore(s, i + 6) THEN 6
      ELSE IF digitsTo(5) /\ BoundaryBefore(s, i + 5) THEN 5
      ELSE 0

\* zm.group(1) if zm else "00000"
ZipOf(s) ==
  LET starts == {i \in 1..Len(s) : ZipMatchAt(s, i) # 0}
  IN  IF starts = {} THEN <<"0","0","0","0","0">>
      ELSE LET i == Min(starts) IN SubSeq(s, i, i + ZipMatchAt(s, i) - 1)

\* re.search(r"(?:order\s*)?([A-Za-z]\d{4,})", prompt).group(1): the
\* optional prefix is not captured and cannot move group 1, which is the
\* leftmost letter followed by four or more digits, with all its digits
OrderIdOf(s) ==
  LET starts == {i \in 1..(Len(s) - 4) :
                   /\ IsLetter(s[i])
                   /\ \A j \in (i + 1)..(i + 4) : IsDigit(s[j])}
  IN  IF starts = {} THEN None
      ELSE LET i == Min(starts)
           IN  Val(SubSeq(s, i, RunEnd(s, i + 1, Digits)))

\* the character classes of the e-mail pattern
LocalChars == Letters \cup Digits \cup {".", "_", "%", "+", "-"}

DomainChars == Letters \cup Digits \cup {".", "-"}

\* for an "@" at index p: the end of the match of
\* [A-Za-z0-9.-]+\.[A-Za-z]{2,} after it, or 0.  The greedy domain run is
\* given back up to its last dot that leaves a domain before it and two
\* letters after it; the letters after that dot are taken greedily.
EmailEndAt(s, p) ==
  LET b == RunEnd(s, p + 1, DomainChars)
      dots == {d \in (p + 2)..b :
                 /\ s[d] = "."
                 /\ d + 2 <= Len(s)
                 /\ IsLetter(s[d + 1]) /\ IsLetter(s[d + 2])}
  IN  IF dots = {} THEN 0 ELSE RunEnd(s, Max(dots) + 1, Letters)

\* re.search(r"([A-Za-z0-9._%+-]+@[A-Za-z0-9.-]+\.[A-Za-z]{2,})", prompt):
\* the leftmost match starts at the beginning of the local-part run of the
\* first "@" that has a local part and a domain
EmailOf(s) ==
  LET ats == {p \in 2..Len(s) :
                /\ s[p] = "@"
                /\ s[p - 1] \in LocalChars
                /\ EmailEndAt(s, p) # 0}
  IN  IF ats = {} THEN None
      ELSE LET p == Min(ats)
           IN  Val(SubSeq(s, RunStart(s, p - 1, LocalChars), EmailEndAt(s, p)))

(***************************************************************************)
(* Inputs of one invocation: the prompt, the process environment, the      *)
(* replies of the text-generation service and the readings of the clock.   *)
(***************************************************************************)
FRAGMENTS ==
  { <<"C","a","n","c","e","l"," ","o","r","d","e","r"," ","A","1","0","0","3"," ">>,
    <<"e","m","a","i","l"," ","m","i","r","a","@","e","x","a","m","p","l","e",".","c","o","m",".">>,
    <<"r","e","f","u","n","d"," ","a","1","0","0","2"," ">>,
    <<"A","L","E","X","@","E","X","A","M","P","L","E",".","C","O","M">>,
    <<"W","e","d","d","i","n","g"," ","g","u","e","s","t",","," ","m","i","d","i",","," ","u","n","d","e","r"," ","$","1","2","0"," ">>,
    <<"E","T","A"," ","t","o"," ","5","6","0","0","0","1","?">>,
    <<"m","y"," ","o","r","d","e","r">>,
    <<"d","r","e","s","s"," ","u","n","d","e","r"," ","$","5","0">>,
    <<"H","e","l","l","o",","," ","d","i","s","c","o","u","n","t"," ","c","o","d","e","?">>,
    <<"l","o","o","s","e"," ","s","i","z","e"," ","1","0","0","0","1">> }

RECURSIVE PromptsUpTo(_)
PromptsUpTo(n) ==
  IF n = 0 THEN {<<>>}
  ELSE PromptsUpTo(n - 1)
       \cup {p \o f : p \in PromptsUpTo(n - 1), f \in FRAGMENTS}

PROMPTS == PromptsUpTo(MaxFragments)

\* NOW_ISO: unset, the empty string, or a text
NOW_ISO_VALUES ==
  { [kind |-> "unset", iso |-> IsoText(FALSE, 0, 0, "")],
    [kind |-> "empty", iso |-> IsoText(FALSE, 0, 0, "")],
    [kind |-> "text", iso |-> IsoText(FALSE, 0, 0, "")],         \* "yesterday"
    [kind |-> "text", iso |-> IsoText(TRUE, 132000, 0, "")],     \* 2025-09-07T12:40:00
    [kind |-> "text", iso |-> IsoText(TRUE, 132000, 0, "Z")],    \* 2025-09-07T12:40:00Z
    [kind |-> "text", iso |-> IsoText(TRUE, 54600, 0, "Z")],     \* 2025-09-06T15:10:00Z
    [kind |-> "text", iso |-> IsoText(TRUE, 50700, 0, "+00:00")],\* 2025-09-06T14:05:00+00:00
    [kind |-> "text", iso |-> IsoText(TRUE, 132900, 0, "Z")],    \* 2025-09-07T12:55:00Z
    [kind |-> "text", iso |-> IsoText(TRUE, 132900, 1, "Z")],    \* ...T12:55:00.000001Z
    [kind |-> "text", iso |-> IsoText(TRUE, 132900, 60, "Z")] }  \* ...T12:55:00.000060Z

\* the process environment read by use_llm and utcnow
ENVIRONMENTS ==
  [has_key : BOOLEAN, USE_MOCK_LLM : BOOLEAN, NOW_ISO : NOW_ISO_VALUES]

\* datetime.now(timezone.utc)
CLOCK_READINGS ==
  { [sec |-> 132899, us |-> 999999], [sec |-> 140000, us |-> 0] }

\* texts the text-generation service may return
LLM_REPLIES ==
  { <<"p","r","o","d","u","c","t","_","a","s","s","i","s","t">>, <<" ","o","r","d","e","r","_","h","e","l","p","\n">>, <<"o","t","h","e","r">>, <<>>,
    <<"o","r","d","e","r"," ","o","r"," ","p","r","o","d","u","c","t","?">>, <<"Y","o","u","r"," ","o","r","d","e","r"," ","i","s"," ","c","a","n","c","e","l","l","e","d",".">> }

(***************************************************************************)
(* graph_langgraph.py                                                      *)
(***************************************************************************)
VARIABLES
  env,        \* the process environment (os.environ), fixed for the run
  state,      \* the AgentState dictionary threaded through the nodes
  pc,         \* the node to run next, "END", "returned" or "failed"
  ran,        \* the nodes that have run to completion, in order
  calls,      \* the domain tools invoked so far, in order
  eval_time,  \* the evaluation time `now` computed by order_cancel
  error,      \* the exception that ended the invocation, "" if none
  result,     \* the value returned by run_agent
  driver,     \* the callers of print_case and the invocation not scheduled
  tool_call   \* a direct call of a domain tool: arguments and returned value

vars == <<env, state, pc, ran, calls, eval_time, error, result, driver, tool_call>>

STAGES == <<"router", "tool_selector", "policy_guard", "responder", "trace">>

INTENTS == {"product_assist", "order_help", "other"}

\* graph.invoke({"prompt": prompt}): every other key is absent
InitialState(prompt) ==
  [prompt |-> prompt, intent |-> Absent, tools_called |-> Absent,
   evidence |-> Absent, policy_decision |-> Absent, final_message |-> Absent,
   order |-> Absent, order_id |-> Absent, email |-> Absent,
   products |-> Absent, size |-> Absent, eta |-> Absent]

Init ==
  /\ env \in ENVIRONMENTS
  /\ state \in {InitialState(p) : p \in PROMPTS}
  /\ pc = "router"
  /\ ran = <<>>
  /\ calls = <<>>
  /\ eval_time = Absent
  /\ error = ""
  /\ result = Absent
  /\ driver = None
  /\ tool_call = None

use_llm == env.has_key /\ ~env.USE_MOCK_LLM

\* call_llm: the service raises, or returns a text that is stripped
call_llm ==
  {[raised |-> TRUE, text |-> <<>>]}
  \cup {[raised |-> FALSE, text |-> Strip(t)] : t \in LLM_REPLIES}

\* build_graph with the edge out of tool_selector leading past policy_guard
NextNodeSkippingGuard(node) ==
  CASE node = "router" -> "tool_selector"
    [] node = "tool_selector" -> "responder"
    [] node = "policy_guard" -> "responder"
    [] node = "responder" -> "trace"
    [] node = "trace" -> "END"

\* the edge out of a node (build_graph)
NextNode(node) ==
  CASE node = "router" -> "tool_selector"
    [] node = "tool_selector" -> "policy_guard"
    [] node = "policy_guard" -> "responder"
    [] node = "responder" -> "trace"
    [] node = "trace" -> "END"

\* a node returns: the graph follows its edge
Advance(node) ==
  /\ pc' = NextNode(node)
  /\ ran' = Append(ran, node)
  /\ UNCHANGED <<error, driver, tool_call>>

\* a node raises: the exception leaves graph.invoke and run_agent
Raise(kind) ==
  /\ pc' = "failed"
  /\ error' = kind
  /\ UNCHANGED <<state, ran, result, driver, tool_call>>

ORDER_KEYWORDS ==
  { <<"c","a","n","c","e","l"," ","o","r","d","e","r">>, <<"o","r","d","e","r"," ","s","t","a","t","u","s">>, <<"o","r","d","e","r"," ","h","e","l","p">>,
    <<"w","h","e","r","e"," ","i","s"," ","m","y"," ","o","r","d","e","r">>, <<"o","r","d","e","r"," ">>, <<"r","e","f","u","n","d">> }

PRODUCT_KEYWORDS ==
  { <<"d","r","e","s","s">>, <<"p","r","o","d","u","c","t">>, <<"w","e","d","d","i","n","g">>, <<"m","i","d","i">>, <<"s","i","z","e">>, <<"e","t","a">>, <<"z","i","p">> }

\* router_node testing the product keywords before the order keywords
ClassifyPromptProductFirst(p) ==
  LET low == Lower(p)
  IN  IF \E k \in PRODUCT_KEYWORDS : Contains(low, k) THEN "product_assist"
      ELSE IF \E k \in ORDER_KEYWORDS : Contains(low, k) THEN "order_help"
      ELSE "other"

\* the deterministic classification of router_node
ClassifyPrompt(p) ==
  LET low == Lower(p)
  IN  IF \E k \in ORDER_KEYWORDS : Contains(low, k) THEN "order_help"
      ELSE IF \E k \in PRODUCT_KEYWORDS : Contains(low, k) THEN "product_assist"
      ELSE "other"

\* router_node labelling a reply it does not recognise "unknown"
ClassifyReplyUnknown(text) ==
  IF Contains(text, <<"p","r","o","d","u","c","t">>) THEN "product_assist"
  ELSE IF Contains(text, <<"o","r","d","e","r">>) THEN "order_help"
  ELSE "unknown"

\* the interpretation of the service's reply in router_node
ClassifyReply(text) ==
  IF Contains(text, <<"p","r","o","d","u","c","t">>) THEN "product_assist"
  ELSE IF Contains(text, <<"o","r","d","e","r">>) THEN "order_help"
  ELSE "other"

\* router_node keeping the lists the incoming state holds
RouterWritesKeepingLists(intent) ==
  [state EXCEPT !.intent = Val(intent),
                !.tools_called = IF @.st = "val" THEN @ ELSE Val(<<>>),
                !.evidence = IF @.st = "val" THEN @ ELSE Val(<<>>)]

\* the writes of router_node
RouterWrites(intent) ==
  [state EXCEPT !.intent = Val(intent), !.tools_called = Val(<<>>),
                !.evidence = Val(<<>>)]

RouterDeterministic ==
  /\ pc = "router"
  /\ ~use_llm
  /\ state' = RouterWrites(ClassifyPrompt(state.prompt))
  /\ Advance("router")
  /\ UNCHANGED <<env, calls, eval_time, result>>

RouterDelegated ==
  /\ pc = "router"
  /\ use_llm
  /\ \E r \in call_llm :
       /\ ~r.raised
       /\ state' = RouterWrites(ClassifyReply(r.text))
  /\ Advance("router")
  /\ UNCHANGED <<env, calls, eval_time, result>>

RouterFails ==
  /\ pc = "router"
  /\ use_llm
  /\ \E r \in call_llm : r.raised
  /\ Raise("call_llm")
  /\ UNCHANGED <<env, calls, eval_time>>

\* products[:3]
FirstThree(s) == SubSeq(s, 1, IF Len(s) < 3 THEN Len(s) ELSE 3)

\* products[:2]
FirstTwo(s) == SubSeq(s, 1, IF Len(s) < 2 THEN Len(s) ELSE 2)

\* the evidence entries appended for the shown products
ProductEvidence(picks) ==
  [i \in 1..Len(picks) |->
     [id |-> picks[i].id, title |-> picks[i].title, price |-> picks[i].price,
      sizes |-> picks[i].sizes]]

\* the product_assist branch of tool_selector_node
SelectProducts(s) ==
  LET low == Lower(s.prompt)
      tags == TagsOf(low)
      found == product_search(s.prompt, PriceCap(low),
                              IF tags # <<>> THEN Val(tags) ELSE None)
      picks == FirstTwo(found)
  IN  [s EXCEPT
         !.tools_called =
            Val(s.tools_called.v \o <<"product_search", "size_recommender", "eta">>),
         !.products = Val(picks),
         !.size = Val(size_recommender(s.prompt)),
         !.eta = Val(eta(ZipOf(s.prompt))),
         !.evidence = Val(s.evidence.v \o ProductEvidence(picks))]

\* whether the order_help branch calls tools.order_lookup: both identifiers
\* were extracted
LookupCalled(s) == OrderIdOf(s.prompt).st = "val" /\ EmailOf(s.prompt).st = "val"

\* the order_help branch recording order_lookup only when it is called
SelectOrderRecordingRealLookups(s) ==
  LET oid == OrderIdOf(s.prompt)
      email == EmailOf(s.prompt)
      order == IF LookupCalled(s) THEN order_lookup(oid.v, email.v) ELSE None
  IN  [s EXCEPT
         !.tools_called = Val(s.tools_called.v \o
                              (IF LookupCalled(s) THEN <<"order_lookup">> ELSE <<>>)),
         !.order_id = oid,
         !.email = email,
         !.order = order,
         !.evidence =
            Val(s.evidence.v
                \o <<[order_id |-> oid, email |-> email,
                      found |-> (order.st = "val")]>>)]

\* the order_help branch of tool_selector_node
SelectOrder(s) ==
  LET oid == OrderIdOf(s.prompt)
      email == EmailOf(s.prompt)
      order == IF LookupCalled(s) THEN order_lookup(oid.v, email.v) ELSE None
  IN  [s EXCEPT
         !.tools_called = Val(s.tools_called.v \o <<"order_lookup">>),
         !.order_id = oid,
         !.email = email,
         !.order = order,
         !.evidence =
            Val(s.evidence.v
                \o <<[order_id |-> oid, email |-> email,
                      found |-> (order.st = "val")]>>)]

ToolSelectorProduct ==
  /\ pc = "tool_selector"
  /\ state.intent = Val("product_assist")
  /\ state' = SelectProducts(state)
  /\ calls' = calls \o <<"product_search", "size_recommender", "eta">>
  /\ Advance("tool_selector")
  /\ UNCHANGED <<env, eval_time, result>>

ToolSelectorOrder ==
  /\ pc = "tool_selector"
  /\ state.intent = Val("order_help")
  /\ state' = SelectOrder(state)
  /\ calls' = IF LookupCalled(state) THEN Append(calls, "order_lookup") ELSE calls
  /\ Advance("tool_selector")
  /\ UNCHANGED <<env, eval_time, result>>

\* tool_selector_node falling back to the product tools for other intents
ToolSelectorOtherSearching ==
  /\ pc = "tool_selector"
  /\ state.intent \notin {Val("product_assist"), Val("order_help")}
  /\ state' = SelectProducts(state)
  /\ calls' = calls \o <<"product_search", "size_recommender", "eta">>
  /\ Advance("tool_selector")
  /\ UNCHANGED <<env, eval_time, result>>

ToolSelectorOther ==
  /\ pc = "tool_selector"
  /\ state.intent \notin {Val("product_assist"), Val("order_help")}
  /\ Advance("tool_selector")
  /\ UNCHANGED <<env, state, calls, eval_time, result>>

\* `not order`: the key is absent or holds None
NoOrder(s) == s.order.st # "val"

\* a policy decision
Decision(allowed, text, tenths) ==
  [cancel_allowed |-> allowed, reason |-> [text |-> text, tenths |-> tenths]]

\* policy_guard_node for an intent other than order_help
PolicyGuardSkip ==
  /\ pc = "policy_guard"
  /\ state.intent # Val("order_help")
  /\ state' = [state EXCEPT !.policy_decision = None]
  /\ Advance("policy_guard")
  /\ UNCHANGED <<env, calls, eval_time, result>>

\* policy_guard_node leaving the decision null when no order was found
PolicyGuardNoOrderNull ==
  /\ pc = "policy_guard"
  /\ state.intent = Val("order_help")
  /\ NoOrder(state)
  /\ state' = [state EXCEPT !.policy_decision = None]
  /\ Advance("policy_guard")
  /\ UNCHANGED <<env, calls, eval_time, result>>

\* policy_guard_node for order_help when no order was found
PolicyGuardNoOrder ==
  /\ pc = "policy_guard"
  /\ state.intent = Val("order_help")
  /\ NoOrder(state)
  /\ state' = [state EXCEPT !.policy_decision =
                 Val(Decision(FALSE, "order_not_found_or_missing_credentials", 0))]
  /\ Advance("policy_guard")
  /\ UNCHANGED <<env, calls, eval_time, result>>

\* policy_guard_node for order_help with an order: tools.order_cancel returns
PolicyGuardCancel ==
  /\ pc = "policy_guard"
  /\ state.intent = Val("order_help")
  /\ ~NoOrder(state)
  /\ \E clock \in CLOCK_READINGS :
       LET r == order_cancel(state.order.v.order_id, None, env.NOW_ISO, clock)
       IN  /\ r.err = ""
           /\ state' = [state EXCEPT !.policy_decision = Val(r.decision)]
           /\ eval_time' = r.now
  /\ calls' = Append(calls, "order_cancel")
  /\ Advance("policy_guard")
  /\ UNCHANGED <<env, result>>

\* policy_guard_node for order_help with an order: tools.order_cancel raises
PolicyGuardFails ==
  /\ pc = "policy_guard"
  /\ state.intent = Val("order_help")
  /\ ~NoOrder(state)
  /\ \E clock \in CLOCK_READINGS :
       LET r == order_cancel(state.order.v.order_id, None, env.NOW_ISO, clock)
       IN  /\ r.err # ""
           /\ Raise(r.err)
  /\ calls' = Append(calls, "order_cancel")
  /\ UNCHANGED <<env, eval_time>>

\* dict.get(key, default) on the state: the default for an absent key
GetOr(field, default) == IF field.st = "absent" THEN Val(default) ELSE field

\* the line of one pick in the product message
PickLines(picks) ==
  [i \in 1..Len(picks) |->
     [title |-> picks[i].title, price |-> picks[i].price,
      sizes |-> picks[i].sizes]]

\* the deterministic fallback confirming every order that was found
ComposeMessageIgnoringDecision(s) ==
  IF s.intent = Val("product_assist")
  THEN [err |-> "", msg |-> [branch |-> IF GetOr(s.products, <<>>).v = <<>>
                                         THEN "product_none" ELSE "product_picks"]]
  ELSE IF s.intent = Val("order_help")
  THEN IF NoOrder(s)
       THEN [err |-> "", msg |-> [branch |-> "order_unverified"]]
       ELSE [err |-> "",
             msg |-> [branch |-> "cancel_confirmed",
                      order_id |-> s.order.v.order_id]]
  ELSE [err |-> "", msg |-> [branch |-> "discount_refusal"]]

\* the deterministic fallback of responder_node: the message, or the
\* exception of decision.get on a None decision
ComposeMessage(s) ==
  IF s.intent = Val("product_assist")
  THEN LET picks == GetOr(s.products, <<>>).v
       IN  IF picks = <<>>
           THEN [err |-> "", msg |-> [branch |-> "product_none"]]
           ELSE [err |-> "",
                 msg |-> [branch |-> "product_picks",
                          lines |-> PickLines(picks),
                          rec |-> IF s.size.st = "val"
                                  THEN s.size.v.recommended ELSE "M",
                          rationale |-> IF s.size.st = "val"
                                        THEN s.size.v.rationale ELSE "",
                          zip |-> IF s.eta.st = "val" THEN Val(s.eta.v.zip)
                                  ELSE None,
                          eta_text |-> IF s.eta.st = "val"
                                       THEN s.eta.v.eta_window
                                       ELSE "2-5 business days"]]
  ELSE IF s.intent = Val("order_help")
  THEN IF NoOrder(s)
       THEN [err |-> "", msg |-> [branch |-> "order_unverified"]]
       ELSE IF s.policy_decision.st = "none"
       THEN [err |-> "AttributeError"]
       ELSE IF s.policy_decision.st = "val" /\ s.policy_decision.v.cancel_allowed
       THEN [err |-> "",
             msg |-> [branch |-> "cancel_confirmed",
                      order_id |-> s.order.v.order_id]]
       ELSE [err |-> "",
             msg |-> [branch |-> "cancel_denied",
                      order_id |-> s.order.v.order_id,
                      reason |-> IF s.policy_decision.st = "val"
                                 THEN s.policy_decision.v.reason
                                 ELSE [text |-> ">60 min", tenths |-> 0]]]
  ELSE [err |-> "", msg |-> [branch |-> "discount_refusal"]]

ResponderDeterministic ==
  /\ pc = "responder"
  /\ ~use_llm
  /\ LET c == ComposeMessage(state)
     IN  IF c.err = ""
         THEN /\ state' = [state EXCEPT !.final_message = Val(c.msg)]
              /\ Advance("responder")
              /\ UNCHANGED result
         ELSE Raise(c.err)
  /\ UNCHANGED <<env, calls, eval_time>>

\* responder_node in delegated mode: the service's reply is the message
ResponderDelegated ==
  /\ pc = "responder"
  /\ use_llm
  /\ \E r \in call_llm :
       /\ ~r.raised
       /\ state' = [state EXCEPT !.final_message =
                      Val([branch |-> "delegated", text |-> r.text])]
  /\ Advance("responder")
  /\ UNCHANGED <<env, calls, eval_time, result>>

ResponderFails ==
  /\ pc = "responder"
  /\ use_llm
  /\ \E r \in call_llm : r.raised
  /\ Raise("call_llm")
  /\ UNCHANGED <<env, calls, eval_time>>

\* trace_node returns the state it was given
Trace ==
  /\ pc = "trace"
  /\ Advance("trace")
  /\ UNCHANGED <<env, state, calls, eval_time, result>>

\* out.get(key): None for an absent key
Get(field) == IF field.st = "absent" THEN None ELSE field

\* run_agent returning a trace without the evidence log
ResultOfWithoutEvidence(out) ==
  [trace |-> [intent |-> Get(out.intent),
              tools_called |-> GetOr(out.tools_called, <<>>),
              evidence |-> Val(<<>>),
              policy_decision |-> Get(out.policy_decision),
              final_message |-> GetOr(out.final_message, [branch |-> "empty"])],
   reply |-> GetOr(out.final_message, [branch |-> "empty"])]

\* the value run_agent builds from the state graph.invoke returned
ResultOf(out) ==
  [trace |-> [intent |-> Get(out.intent),
              tools_called |-> GetOr(out.tools_called, <<>>),
              evidence |-> GetOr(out.evidence, <<>>),
              policy_decision |-> Get(out.policy_decision),
              final_message |-> GetOr(out.final_message, [branch |-> "empty"])],
   reply |-> GetOr(out.final_message, [branch |-> "empty"])]

Return ==
  /\ pc = "END"
  /\ result' = Val(ResultOf(state))
  /\ pc' = "returned"
  /\ UNCHANGED <<env, state, ran, calls, eval_time, error, driver, tool_call>>

Next ==
  \/ RouterDeterministic
  \/ RouterDelegated
  \/ RouterFails
  \/ ToolSelectorProduct
  \/ ToolSelectorOrder
  \/ ToolSelectorOther
  \/ PolicyGuardSkip
  \/ PolicyGuardNoOrder
  \/ PolicyGuardCancel
  \/ PolicyGuardFails
  \/ ResponderDeterministic
  \/ ResponderDelegated
  \/ ResponderFails
  \/ Trace
  \/ Return

Spec == Init /\ [][Next]_vars


(***************************************************************************)
(* Several callers in one process (tests/run_langgraph.py): print_case     *)
(* sets or removes NOW_ISO in os.environ, which is shared by the whole     *)
(* process, and calls run_agent.  The invocation variables above hold the  *)
(* caller that is scheduled; driver.other holds the one that is not.       *)
(***************************************************************************)
\* the arguments of print_case: the cases of main, and the second case with
\* a later evaluation time and with one that names no zone
DRIVER_CASES ==
  { [prompt |-> <<"W","e","d","d","i","n","g"," ","g","u","e","s","t",","," ","m","i","d","i",","," ","u","n","d","e","r"," ","$","1","2","0"," ","E","T","A"," ","t","o"," ","5","6","0","0","0","1","?">>,
     now_iso |-> [kind |-> "unset", iso |-> IsoText(FALSE, 0, 0, "")]],
    [prompt |-> <<"C","a","n","c","e","l"," ","o","r","d","e","r"," ","A","1","0","0","3"," ","e","m","a","i","l"," ","m","i","r","a","@","e","x","a","m","p","l","e",".","c","o","m",".">>,
     now_iso |-> [kind |-> "text", iso |-> IsoText(TRUE, 132000, 0, "Z")]],
    [prompt |-> <<"C","a","n","c","e","l"," ","o","r","d","e","r"," ","A","1","0","0","2"," ","e","m","a","i","l"," ","a","l","e","x","@","e","x","a","m","p","l","e",".","c","o","m",".">>,
     now_iso |-> [kind |-> "text", iso |-> IsoText(TRUE, 54600, 0, "Z")]],
    [prompt |-> <<"H","e","l","l","o",","," ","d","i","s","c","o","u","n","t"," ","c","o","d","e","?">>,
     now_iso |-> [kind |-> "unset", iso |-> IsoText(FALSE, 0, 0, "")]],
    [prompt |-> <<"C","a","n","c","e","l"," ","o","r","d","e","r"," ","A","1","0","0","3"," ","e","m","a","i","l"," ","m","i","r","a","@","e","x","a","m","p","l","e",".","c","o","m",".">>,
     now_iso |-> [kind |-> "text", iso |-> IsoText(TRUE, 132900, 1, "Z")]],
    [prompt |-> <<"C","a","n","c","e","l"," ","o","r","d","e","r"," ","A","1","0","0","3"," ","e","m","a","i","l"," ","m","i","r","a","@","e","x","a","m","p","l","e",".","c","o","m",".">>,
     now_iso |-> [kind |-> "text", iso |-> IsoText(TRUE, 132000, 0, "")]] }

\* the invocation of a caller that has not called print_case yet
IdleContext(caller, case) ==
  [caller |-> caller, case |-> case, state |-> None, pc |-> "idle",
   ran |-> <<>>, calls |-> <<>>, eval_time |-> Absent, error |-> "",
   result |-> Absent]

\* the invocation of the scheduled caller
Current ==
  [caller |-> driver.caller, case |-> driver.case, state |-> state, pc |-> pc,
   ran |-> ran, calls |-> calls, eval_time |-> eval_time, error |-> error,
   result |-> result]

ProcessInit ==
  /\ env \in {e \in ENVIRONMENTS : e.NOW_ISO.kind = "unset"}
  /\ \E c1 \in DRIVER_CASES, c2 \in DRIVER_CASES :
       driver = [caller |-> 1, case |-> c1, other |-> IdleContext(2, c2),
                 overlapped |-> FALSE]
  /\ state = None
  /\ pc = "idle"
  /\ ran = <<>>
  /\ calls = <<>>
  /\ eval_time = Absent
  /\ error = ""
  /\ result = Absent
  /\ tool_call = None

\* print_case up to graph.invoke: NOW_ISO is set when now_iso is given and
\* removed otherwise, then run_agent seeds the state with the prompt
PrintCase ==
  /\ pc = "idle"
  /\ env' = [env EXCEPT !.NOW_ISO =
               IF driver.case.now_iso.kind = "text" THEN driver.case.now_iso
               ELSE [kind |-> "unset", iso |-> IsoText(FALSE, 0, 0, "")]]
  /\ state' = InitialState(driver.case.prompt)
  /\ pc' = "router"
  /\ UNCHANGED <<ran, calls, eval_time, error, result, driver, tool_call>>

\* the scheduler runs the other caller; the two invocations overlap when the
\* one that is left is between its print_case and its return
Switch ==
  /\ driver.other.pc \notin {"returned", "failed"}
  /\ driver' = [caller |-> driver.other.caller, case |-> driver.other.case,
                other |-> Current,
                overlapped |-> (driver.overlapped
                                \/ pc \notin {"idle", "returned", "failed"})]
  /\ state' = driver.other.state
  /\ pc' = driver.other.pc
  /\ ran' = driver.other.ran
  /\ calls' = driver.other.calls
  /\ eval_time' = driver.other.eval_time
  /\ error' = driver.other.error
  /\ result' = driver.other.result
  /\ UNCHANGED <<env, tool_call>>

ProcessNext ==
  \/ Next
  \/ PrintCase
  \/ Switch

ProcessSpec == ProcessInit /\ [][ProcessNext]_vars

(***************************************************************************)
(* The compiled graph invoked with a state that already holds the lists    *)
(* of an earlier accumulation window: the input of router_node is any      *)
(* state, not only the one run_agent builds.                               *)
(***************************************************************************)
\* values of tools_called in the incoming state
SEEDED_TOOLS == {Absent, Val(<<>>), Val(<<"order_lookup">>)}

\* values of evidence in the incoming state
SEEDED_EVIDENCE ==
  {Absent, Val(<<[order_id |-> None, email |-> None, found |-> FALSE]>>)}

SeededInit ==
  /\ env \in ENVIRONMENTS
  /\ \E c \in DRIVER_CASES, t \in SEEDED_TOOLS, e \in SEEDED_EVIDENCE :
       state = [InitialState(c.prompt) EXCEPT !.tools_called = t, !.evidence = e]
  /\ driver = [incoming |-> state]
  /\ pc = "router"
  /\ ran = <<>>
  /\ calls = <<>>
  /\ eval_time = Absent
  /\ error = ""
  /\ result = Absent
  /\ tool_call = None

SeededSpec == SeededInit /\ [][Next]_vars

(***************************************************************************)
(* tools.product_search called directly, with any query, price ceiling and *)
(* tag list, and called again with the same arguments.                     *)
(***************************************************************************)
TOOL_QUERIES ==
  { <<>>, <<"W","e","d","d","i","n","g"," ","g","u","e","s","t",","," ","m","i","d","i",","," ","u","n","d","e","r"," ","$","1","2","0"," ">>, <<"d","r","e","s","s"," ","u","n","d","e","r"," ","$","5","0">>,
    <<"b","l","a","c","k"," ","p","a","r","t","y"," ","d","r","e","s","s">>, <<"L","A","C","E">>, <<"z","i","p"," ","e","t","a"," ","t","o"," ","m">>, <<"i","v","o","r","y"," ","o","r"," ","b","l","u","s","h">> }

TOOL_CEILINGS == {None, Val(0), Val(89), Val(99), Val(120)}

TOOL_TAGS ==
  { None, Val(<<>>), Val(<<<<"w","e","d","d","i","n","g">>>>), Val(<<<<"m","i","d","i">>, <<"w","e","d","d","i","n","g">>>>),
    Val(<<<<"L","A","C","E">>>>), Val(<<<<"b","e","a","c","h">>>>), Val(<<<<"p","a","r","t","y">>, <<"m","i","d","i">>>>) }

ToolsInit ==
  /\ env \in {e \in ENVIRONMENTS : e.NOW_ISO.kind = "unset"}
  /\ \E q \in TOOL_QUERIES, m \in TOOL_CEILINGS, t \in TOOL_TAGS :
       tool_call = [query |-> q, price_max |-> m, tags |-> t,
                    returned |-> Absent, repeated |-> Absent]
  /\ driver = None
  /\ state = None
  /\ pc = "idle"
  /\ ran = <<>>
  /\ calls = <<>>
  /\ eval_time = Absent
  /\ error = ""
  /\ result = Absent

\* product_search(query, price_max, tags)
CallProductSearch ==
  /\ tool_call.returned = Absent
  /\ tool_call' = [tool_call EXCEPT !.returned =
       Val(product_search(tool_call.query, tool_call.price_max, tool_call.tags))]
  /\ UNCHANGED <<env, state, pc, ran, calls, eval_time, error, result, driver>>

\* the same call once more
RepeatProductSearch ==
  /\ tool_call.returned # Absent
  /\ tool_call.repeated = Absent
  /\ tool_call' = [tool_call EXCEPT !.repeated =
       Val(product_search(tool_call.query, tool_call.price_max, tool_call.tags))]
  /\ UNCHANGED <<env, state, pc, ran, calls, eval_time, error, result, driver>>

ToolsNext ==
  \/ CallProductSearch
  \/ RepeatProductSearch

ToolsSpec == ToolsInit /\ [][ToolsNext]_vars
(***************************************************************************)
(* Properties.                                                             *)
(***************************************************************************)
\* the invocation has ended: run_agent returned or an exception left it
Ended == pc \in {"returned", "failed"}

\* the nodes that have run are the first nodes of the pipeline, in its order
RanIsPrefix == Len(ran) <= Len(STAGES) /\ ran = SubSeq(STAGES, 1, Len(ran))

\* the nodes that can raise
RAISING_STAGES == {"router", "policy_guard", "responder"}

\* C1 (as amended): the nodes run in the order router, tool_selector,
\* policy_guard, responder, trace, each at most once, none skipped and none
\* before its predecessor has returned; the node that runs next is the one
\* after the last that ran; the invocation ends either after all five have
\* run, returning a result, or at the first node that raises (router or
\* responder on a failed text-generation call, policy_guard on an unusable
\* evaluation time), after which no node runs.
StagesInOrder ==
  /\ RanIsPrefix
  /\ pc \in Range(STAGES) => pc = STAGES[Len(ran) + 1]
  /\ pc \in {"END", "returned"} => ran = STAGES /\ error = ""
  /\ pc = "returned" <=> result.st = "val"
  /\ pc = "failed" =>
       /\ Len(ran) < Len(STAGES)
       /\ STAGES[Len(ran) + 1] \in RAISING_STAGES
       /\ error # ""

\* a step runs the node pc names, which returns or raises, or it is the
\* return of run_agent; an invocation that has ended takes no step
StageStep ==
  /\ ~Ended
  /\ pc \in Range(STAGES) =>
       \/ ran' = Append(ran, pc) /\ pc' # "failed"
       \/ ran' = ran /\ pc' = "failed"
  /\ pc = "END" => ran' = ran /\ pc' = "returned"

C1_StagesInOrder == []StagesInOrder /\ [][StageStep]_vars

\* C1 witness: an order_help invocation that ran all five nodes and returned
C1_Witness ==
  pc = "returned" /\ ran = STAGES /\ state.intent = Val("order_help")

\* C1 as stated: every invocation that has ended has run the five nodes,
\* once each and in order
C1_Original == RanIsPrefix /\ (Ended => ran = STAGES)

\* a node has run to completion
HasRun(node) == node \in Range(ran)

\* the graph reached its END: the terminal state of the request
Terminal == pc \in {"END", "returned"}

\* C2: in every state after policy_guard has run, the terminal state and a
\* failed responder included, policy_decision is non-null if and only if
\* intent is order_help; for the other intents it holds None.
C2_DecisionIffOrderHelp ==
  HasRun("policy_guard") =>
    /\ state.policy_decision.st = "val" <=> state.intent = Val("order_help")
    /\ state.intent # Val("order_help") => state.policy_decision = None

\* C2 witness: a returned order_help invocation without an order, holding
\* the decision of the policy guard
C2_Witness ==
  /\ pc = "returned"
  /\ state.intent = Val("order_help")
  /\ NoOrder(state)
  /\ state.policy_decision.st = "val"

\* the elapsed time between the order's created_at and the evaluation time
\* is at most 60 minutes (exactly, in microseconds)
AtMostSixtyMinutes(el) == el.sec < 3600 \/ (el.sec = 3600 /\ el.us = 0)

\* the elapsed time order_cancel evaluated for the order in the state
ElapsedOfOrder ==
  Elapsed(eval_time.v, [sec |-> state.order.v.created_at.sec,
                        us |-> state.order.v.created_at.us])

\* order_cancel has evaluated the order of the state
CancelEvaluated == eval_time.st = "val" /\ HasRun("policy_guard")

\* C3: for an existing order, order_cancel returns cancel_allowed = true if
\* and only if the elapsed time is at most 60 minutes: true at exactly 60.0
\* minutes, false at 60.000001 minutes (60 min and 60 microseconds) and one
\* microsecond past the hour, true for anything smaller, negative included.
C3_CancelBoundary ==
  CancelEvaluated =>
    LET el == ElapsedOfOrder
        allowed == state.policy_decision.v.cancel_allowed
    IN  /\ allowed <=> AtMostSixtyMinutes(el)
        /\ (el.sec = 3600 /\ el.us = 0) => allowed
        /\ (el.sec = 3600 /\ el.us = 60) => ~allowed
        /\ el.sec < 0 => allowed

\* C3 witness: an order evaluated exactly 60 minutes after its creation,
\* and allowed
C3_Witness ==
  /\ CancelEvaluated
  /\ ElapsedOfOrder = [sec |-> 3600, us |-> 0]
  /\ state.policy_decision.v.cancel_allowed

\* the branch the table of the Response Composer selects
TableBranch(s) ==
  CASE s.intent = Val("product_assist") /\ s.products.v = <<>> -> "product_none"
    [] s.intent = Val("product_assist") /\ s.products.v # <<>> -> "product_picks"
    [] s.intent = Val("order_help") /\ s.order.st # "val" -> "order_unverified"
    [] s.intent = Val("order_help") /\ s.order.st = "val"
         /\ s.policy_decision.v.cancel_allowed -> "cancel_confirmed"
    [] s.intent = Val("order_help") /\ s.order.st = "val"
         /\ ~s.policy_decision.v.cancel_allowed -> "cancel_denied"
    [] s.intent = Val("other") -> "discount_refusal"

\* the number of rows of the table whose condition holds
RowsSelected(s) ==
  Cardinality(
    {r \in 1..6 :
       CASE r = 1 -> s.intent = Val("product_assist") /\ s.products.v = <<>>
         [] r = 2 -> s.intent = Val("product_assist") /\ s.products.v # <<>>
         [] r = 3 -> s.intent = Val("order_help") /\ s.order.st # "val"
         [] r = 4 -> s.intent = Val("order_help") /\ s.order.st = "val"
                       /\ s.policy_decision.v.cancel_allowed
         [] r = 5 -> s.intent = Val("order_help") /\ s.order.st = "val"
                       /\ ~s.policy_decision.v.cancel_allowed
         [] r = 6 -> s.intent = Val("other")})

\* the responder step in deterministic mode writes the message of the row
\* the table selects, and does not raise
ResponderStep ==
  (pc = "responder" /\ ~use_llm) =>
    /\ RowsSelected(state) = 1
    /\ pc' = "trace"
    /\ state'.final_message.st = "val"
    /\ state'.final_message.v.branch = TableBranch(state)

\* C4: in deterministic mode, in every state that reaches the responder
\* exactly one row of the branch table applies, the responder writes the
\* message of that row, it never raises, and final_message is set in every
\* state after it.
C4_OneBranch ==
  /\ [][ResponderStep]_vars
  /\ []((~use_llm /\ HasRun("responder")) => state.final_message.st = "val")
  /\ []((~use_llm /\ pc = "failed") => ~HasRun("policy_guard"))

\* C4 witness: the responder refused a cancellation for an order that was
\* found, in deterministic mode
C4_Witness ==
  /\ ~use_llm
  /\ HasRun("responder")
  /\ state.order.st = "val"
  /\ state.final_message = Val([branch |-> "cancel_denied",
                                order_id |-> state.order.v.order_id,
                                reason |-> state.policy_decision.v.reason])

\* C5: at the terminal state tools_called is <<product_search,
\* size_recommender, eta>> for product_assist, <<order_lookup>> for
\* order_help (identifiers extracted or not, order found or not) and empty
\* for other.
C5_ToolsCalled ==
  Terminal =>
    /\ state.intent = Val("product_assist") =>
         state.tools_called = Val(<<"product_search", "size_recommender", "eta">>)
    /\ state.intent = Val("order_help") =>
         state.tools_called = Val(<<"order_lookup">>)
    /\ state.intent = Val("other") => state.tools_called = Val(<<>>)
    /\ state.intent.st = "val" /\ state.intent.v \in INTENTS

\* C5 witness: a terminal order_help state in which an identifier was
\* missing, so that tools.order_lookup was not called, yet it is recorded
C5_Witness ==
  /\ Terminal
  /\ state.intent = Val("order_help")
  /\ (state.order_id = None \/ state.email = None)
  /\ "order_lookup" \notin Range(calls)
  /\ state.tools_called = Val(<<"order_lookup">>)

\* some order of the data store matches both identifiers, case-insensitively
MatchesBoth(oid, email) ==
  \E i \in 1..Len(ORDERS) :
    /\ Lower(ORDERS[i].order_id) = Lower(oid)
    /\ Lower(ORDERS[i].email) = Lower(email)

\* the case of C6: order_help, and the order id or the e-mail is missing
\* from the prompt or no order matches both
LookupComesUpEmpty ==
  /\ state.intent = Val("order_help")
  /\ HasRun("tool_selector")
  /\ \/ state.order_id = None
     \/ state.email = None
     \/ ~MatchesBoth(state.order_id.v, state.email.v)

DeniedForMissingOrder ==
  Val(Decision(FALSE, "order_not_found_or_missing_credentials", 0))

\* what C6 says of the lookup, the decision and order_cancel
RecoveredAsNotFound ==
  /\ state.order = None
  /\ state.evidence = Val(<<[order_id |-> state.order_id, email |-> state.email,
                             found |-> FALSE]>>)
  /\ (state.order_id = None \/ state.email = None) =>
       "order_lookup" \notin Range(calls)
  /\ HasRun("policy_guard") => state.policy_decision = DeniedForMissingOrder
  /\ "order_cancel" \notin Range(calls)
  /\ eval_time = Absent
  /\ Terminal => state.final_message.st = "val"
  /\ (Terminal /\ ~use_llm) =>
       state.final_message = Val([branch |-> "order_unverified"])

\* C6 (as amended): when intent is order_help and the order id or the
\* e-mail is missing from the prompt, or no order matches both, the lookup
\* result is "not found", the Policy Guard sets policy_decision to
\* {cancel_allowed: false, reason: order_not_found_or_missing_credentials},
\* order_cancel is not invoked, and the invocation completes with a final
\* message; it fails only if, in delegated mode, the text-generation call of
\* the responder itself raises, and never in deterministic mode.
C6_MissingOrderRecovered ==
  LookupComesUpEmpty =>
    /\ RecoveredAsNotFound
    /\ pc = "failed" =>
         /\ use_llm
         /\ error = "call_llm"
         /\ ran = <<"router", "tool_selector", "policy_guard">>

\* C6 witness: both identifiers were extracted, no order matches both, and
\* the deterministic invocation returned the "could not verify" message
C6_Witness ==
  /\ pc = "returned"
  /\ ~use_llm
  /\ state.order_id.st = "val" /\ state.email.st = "val"
  /\ LookupComesUpEmpty
  /\ state.final_message = Val([branch |-> "order_unverified"])

\* C6 as stated: in that case the invocation does not fail
C6_Original == LookupComesUpEmpty => (RecoveredAsNotFound /\ pc # "failed")

HasOrderKeyword(p) == \E k \in ORDER_KEYWORDS : Contains(Lower(p), k)

HasProductKeyword(p) == \E k \in PRODUCT_KEYWORDS : Contains(Lower(p), k)

\* C7: in deterministic mode the router yields order_help exactly for the
\* prompts containing an order keyword (product keywords present or not,
\* before or after), product_assist exactly for those with no order keyword
\* and a product keyword, and other exactly for those with neither.
C7_OrderPrecedence ==
  (~use_llm /\ HasRun("router")) =>
    LET o == HasOrderKeyword(state.prompt)
        p == HasProductKeyword(state.prompt)
    IN  /\ state.intent = Val("order_help") <=> o
        /\ state.intent = Val("product_assist") <=> (~o /\ p)
        /\ state.intent = Val("other") <=> (~o /\ ~p)

\* C7 witness: a prompt whose product keywords come before its order
\* keyword is classified order_help
C7_Witness ==
  /\ ~use_llm
  /\ HasRun("router")
  /\ state.prompt = <<"W","e","d","d","i","n","g"," ","g","u","e","s","t",","," ","m","i","d","i",","," ","u","n","d","e","r"," ","$","1","2","0"," ","C","a","n","c","e","l"," ","o","r","d","e","r"," ","A","1","0","0","3"," ">>
  /\ state.intent = Val("order_help")

\* C8: in both modes, once the router has run intent is one of
\* product_assist, order_help, other (whatever text the service returned);
\* it is unset before, and no step after the router changes intent; no step
\* at all changes prompt.
C8_IntentSetOnce ==
  /\ [](HasRun("router") => (state.intent.st = "val" /\ state.intent.v \in INTENTS))
  /\ [](~HasRun("router") => state.intent = Absent)
  /\ [][HasRun("router") => state'.intent = state.intent]_vars
  /\ [][state'.prompt = state.prompt]_vars

\* C8 witness: a delegated invocation classified from the service's reply
\* has returned
C8_Witness ==
  /\ use_llm
  /\ pc = "returned"
  /\ state.intent = Val("order_help")

\* C9: in every reachable state order, order_id and email are unset unless
\* intent is order_help, and products, size and eta are unset unless intent
\* is product_assist; none of the six is set when intent is other.
C9_UntakenFieldsUnset ==
  /\ state.intent # Val("order_help") =>
       state.order = Absent /\ state.order_id = Absent /\ state.email = Absent
  /\ state.intent # Val("product_assist") =>
       state.products = Absent /\ state.size = Absent /\ state.eta = Absent

\* C9 witness: a terminal product_assist state with its own working fields
\* set and those of order_help unset
C9_Witness ==
  /\ Terminal
  /\ state.intent = Val("product_assist")
  /\ state.products.st = "val" /\ state.size.st = "val" /\ state.eta.st = "val"
  /\ state.order = Absent /\ state.order_id = Absent /\ state.email = Absent

\* C10 as stated: final_message is unset until the responder has run, set
\* once it has, unchanged afterwards, and every invocation in deterministic
\* mode ends in the terminal state with final_message set.
C10_Original ==
  /\ [](~HasRun("responder") => state.final_message = Absent)
  /\ [](HasRun("responder") => state.final_message.st = "val")
  /\ [][HasRun("responder") => state'.final_message = state.final_message]_vars
  /\ []((~use_llm /\ Ended) => (pc = "returned" /\ state.final_message.st = "val"))

\* the two invocations of the process
Invocations == {Current, driver.other}

Finished(c) == c.pc \in {"returned", "failed"}

\* how an invocation ended: returned with a value, or failed with an error
Outcome(c) == [pc |-> c.pc, error |-> c.error, result |-> c.result]

\* the outcome of print_case(case) when no other caller runs, in
\* deterministic mode, with the given reading of the real-time clock
RunAlone(case, clock) ==
  LET now_env == IF case.now_iso.kind = "text" THEN case.now_iso
                 ELSE [kind |-> "unset", iso |-> IsoText(FALSE, 0, 0, "")]
      s0 == InitialState(case.prompt)
      s1 == [s0 EXCEPT !.intent = Val(ClassifyPrompt(case.prompt)),
                       !.tools_called = Val(<<>>), !.evidence = Val(<<>>)]
      s2 == IF s1.intent = Val("product_assist") THEN SelectProducts(s1)
            ELSE IF s1.intent = Val("order_help") THEN SelectOrder(s1)
            ELSE s1
      guarded == s2.intent = Val("order_help") /\ ~NoOrder(s2)
      r == order_cancel(s2.order.v.order_id, None, now_env, clock)
      s3 == [s2 EXCEPT !.policy_decision =
               IF s2.intent # Val("order_help") THEN None
               ELSE IF NoOrder(s2)
               THEN Val(Decision(FALSE, "order_not_found_or_missing_credentials", 0))
               ELSE Val(r.decision)]
      c == ComposeMessage(s3)
  IN  IF guarded /\ r.err # ""
      THEN [pc |-> "failed", error |-> r.err, result |-> Absent]
      ELSE IF c.err # ""
      THEN [pc |-> "failed", error |-> c.err, result |-> Absent]
      ELSE [pc |-> "returned", error |-> "",
            result |-> Val(ResultOf([s3 EXCEPT !.final_message = Val(c.msg)]))]

AloneOutcomes(case) == {RunAlone(case, clock) : clock \in CLOCK_READINGS}

\* the evaluation timestamp is injected: print_case is given one
Injected(case) == case.now_iso.kind = "text"

\* C11: in deterministic mode, when the two invocations of the process run
\* one after the other, (a) each starts from a state holding only its own
\* prompt, (b) each ends as it would have ended running alone, and (c) two
\* invocations given the same prompt and the same injected evaluation
\* timestamp end identically: the same trace and the same reply.
C11_Idempotent ==
  (~use_llm /\ ~driver.overlapped) =>
    /\ \A c \in Invocations :
         /\ (c.pc = "router") => (c.state = InitialState(c.case.prompt))
         /\ Finished(c) => (Outcome(c) \in AloneOutcomes(c.case))
    /\ \A a \in Invocations, b \in Invocations :
         (Finished(a) /\ Finished(b) /\ a.case = b.case /\ Injected(a.case))
           => (Outcome(a) = Outcome(b))

\* C11 witness: two invocations with the second case of the test driver
\* have run one after the other and both returned the confirmation
C11_Witness ==
  /\ ~use_llm
  /\ ~driver.overlapped
  /\ pc = "returned" /\ driver.other.pc = "returned"
  /\ driver.case = driver.other.case
  /\ Injected(driver.case)
  /\ result = driver.other.result
  /\ result.v.reply = Val([branch |-> "cancel_confirmed", order_id |-> <<"A","1","0","0","3">>])

\* C12 as stated: in deterministic mode, for every interleaving of the
\* stages of two invocations, each with its own prompt and its own
\* evaluation time set by print_case, each invocation ends as it ends when
\* it runs alone.
C12_Original ==
  ~use_llm =>
    \A c \in Invocations : Finished(c) => (Outcome(c) \in AloneOutcomes(c.case))

\* NOW_ISO holds a text that is not a timestamp
MalformedOverride == env.NOW_ISO.kind = "text" /\ ~env.NOW_ISO.iso.ok

\* NOW_ISO is set but yields no evaluation time comparable with an order's
\* creation time: it is empty, not a timestamp, or names no zone
UnusableOverride ==
  \/ env.NOW_ISO.kind = "empty"
  \/ /\ env.NOW_ISO.kind = "text"
     /\ LET t == parse_iso(env.NOW_ISO.iso) IN t.err # "" \/ ~t.aware

\* the evaluation time is a reading of the real-time clock
EvaluatedAgainstClock ==
  /\ eval_time.st = "val"
  /\ \E k \in CLOCK_READINGS : eval_time.v.sec = k.sec /\ eval_time.v.us = k.us

\* C13 as stated: with a malformed override no stage runs and no tool is
\* called, for every prompt: the invocation can only end with the error;
\* and with an override that cannot be used the evaluation time is never a
\* reading of the real-time clock.
C13_Original ==
  /\ MalformedOverride => (ran = <<>> /\ calls = <<>> /\ pc \in {"router", "failed"})
  /\ UnusableOverride => ~EvaluatedAgainstClock

\* C14 as stated: in delegated mode a failed call in the router ends the
\* invocation with classification_unavailable, one in the responder with
\* composition_unavailable, and no invocation returns a reply that is the
\* empty response of the service.
C14_Original ==
  use_llm =>
    /\ (pc = "failed" /\ ran = <<>>) => error = "classification_unavailable"
    /\ (pc = "failed" /\ ran = <<"router", "tool_selector", "policy_guard">>)
         => error = "composition_unavailable"
    /\ pc = "returned" =>
         result.v.reply # Val([branch |-> "delegated", text |-> <<>>])

\* C15: the trace stage leaves every field of the request state unchanged
\* (and so does every step after the responder), and the value run_agent
\* returns has reply equal to trace.final_message and trace fields intent,
\* tools_called, evidence and policy_decision equal to those of the state
\* the responder produced.
C15_TracePassThrough ==
  /\ [][pc = "trace" => state' = state]_vars
  /\ [][HasRun("responder") => state' = state]_vars
  /\ [](pc = "returned" =>
          /\ result.st = "val"
          /\ result.v.reply = result.v.trace.final_message
          /\ result.v.trace.final_message = state.final_message
          /\ result.v.trace.intent = state.intent
          /\ result.v.trace.tools_called = state.tools_called
          /\ result.v.trace.evidence = state.evidence
          /\ result.v.trace.policy_decision = state.policy_decision)

\* C15 witness: run_agent has returned a trace with a non-empty evidence log
\* and a decision, after the trace stage ran
C15_Witness ==
  /\ pc = "returned"
  /\ ran = STAGES
  /\ result.v.trace.evidence = state.evidence
  /\ state.evidence.v # <<>>
  /\ state.policy_decision.st = "val"
  /\ result.v.reply = state.final_message

IsPrefix(s, t) == Len(s) <= Len(t) /\ SubSeq(t, 1, Len(s)) = s

\* a router step that returns leaves both lists empty
RouterEmptiesLists ==
  (pc = "router" /\ pc' # "failed") =>
    (state'.tools_called = Val(<<>>) /\ state'.evidence = Val(<<>>))

\* a step after the router extends both lists, or leaves them as they are
ListsGrow ==
  HasRun("router") =>
    /\ IsPrefix(state.tools_called.v, state'.tools_called.v)
    /\ IsPrefix(state.evidence.v, state'.evidence.v)

\* a step of policy_guard, responder, trace or the return changes neither
LaterStagesKeepLists ==
  pc \in {"policy_guard", "responder", "trace", "END"} =>
    /\ state'.tools_called = state.tools_called
    /\ state'.evidence = state.evidence

\* C16: whatever tools_called and evidence the incoming state holds, the
\* router leaves both empty; every later step leaves in each a value that
\* has the value before the step as a prefix; policy_guard, responder and
\* trace (and the return) leave both unchanged.
C16_AppendOnly ==
  /\ [][RouterEmptiesLists]_vars
  /\ [][ListsGrow]_vars
  /\ [][LaterStagesKeepLists]_vars

\* C16 witness: the incoming state held a tool name and an evidence entry;
\* the invocation has returned and both lists hold only what its own
\* tool_selector appended
C16_Witness ==
  /\ pc = "returned"
  /\ driver.incoming.tools_called = Val(<<"order_lookup">>)
  /\ driver.incoming.evidence.st = "val"
  /\ state.intent = Val("product_assist")
  /\ state.tools_called = Val(<<"product_search", "size_recommender", "eta">>)
  /\ Len(state.evidence.v) = Len(state.products.v)

\* the result of the product search tool_selector_node runs for a prompt
SearchOf(prompt) ==
  LET low == Lower(prompt)
      tags == TagsOf(low)
  IN  product_search(prompt, PriceCap(low), IF tags # <<>> THEN Val(tags) ELSE None)

\* C17: at the terminal state, for product_assist the evidence log has one
\* entry per shown product, in the order of products, and products is the
\* first two results of the product search (all of them if fewer); for
\* order_help it has exactly one entry, whose found flag is true if and only
\* if order is set; for other it is empty.
C17_EvidenceMatchesIntent ==
  Terminal =>
    /\ state.intent = Val("product_assist") =>
         LET found == SearchOf(state.prompt)
             shown == state.products.v
             log == state.evidence.v
         IN  /\ Len(shown) <= 2
             /\ Len(shown) = (IF Len(found) < 2 THEN Len(found) ELSE 2)
             /\ \A i \in 1..Len(shown) : shown[i] = found[i]
             /\ Len(log) = Len(shown)
             /\ \A i \in 1..Len(shown) :
                  log[i] = [id |-> shown[i].id, title |-> shown[i].title,
                            price |-> shown[i].price, sizes |-> shown[i].sizes]
    /\ state.intent = Val("order_help") =>
         /\ Len(state.evidence.v) = 1
         /\ state.evidence.v[1].found <=> (state.order.st = "val")
    /\ state.intent = Val("other") => state.evidence = Val(<<>>)

\* C17 witness: a terminal product_assist state whose search found more
\* than two products, of which two are shown and logged
C17_Witness ==
  /\ Terminal
  /\ state.intent = Val("product_assist")
  /\ Len(SearchOf(state.prompt)) > 2
  /\ Len(state.products.v) = 2
  /\ Len(state.evidence.v) = 2

\* free-text matching: some token of the query that is not a stop word
\* occurs in the item's title, tags or colour, or the query has none
TextHit(item, query) ==
  LET words == {w \in Range(Tokens(Lower(query))) : w \notin STOP_WORDS}
      hay == Lower(item.title \o <<" ">> \o Join(item.tags, <<" ">>)
                   \o <<" ">> \o item.color)
  IN  words = {} \/ \E w \in words : Contains(hay, w)

\* the filter of C18
PassesFilter(item, query, price_max, tags) ==
  /\ price_max.st = "val" => item.price <= price_max.v
  /\ IF tags.st = "val" /\ tags.v # <<>>
     THEN \A t \in Range(tags.v) :
            \E u \in Range(item.tags) : Lower(u) = Lower(t)
     ELSE TextHit(item, query)

SortedByPriceThenId(r) ==
  \A i \in 1..Len(r), j \in 1..Len(r) :
    i < j => \/ r[i].price < r[j].price
             \/ r[i].price = r[j].price /\ StrLess(r[i].id, r[j].id)

\* C18: for every query, price ceiling and tag list, product_search returns
\* exactly the catalogue items that pass the filter, each once, sorted by
\* price ascending and then by id ascending; the same call repeated returns
\* the same sequence; and no match outside the first two is cheaper than
\* one of the first two.
C18_SearchExactAndSorted ==
  tool_call.returned.st = "val" =>
    LET r == tool_call.returned.v
    IN  /\ Range(r) = {it \in Range(PRODUCTS) :
                         PassesFilter(it, tool_call.query, tool_call.price_max,
                                      tool_call.tags)}
        /\ SortedByPriceThenId(r)
        /\ tool_call.repeated.st = "val" => tool_call.repeated.v = r
        /\ \A i \in 1..Len(r), j \in 1..Len(r) :
             (i <= 2 /\ j > 2) => r[i].price <= r[j].price

\* C18 witness: a search with a price ceiling and tags that excludes an
\* item by its price, returns two or more items, the first two at the same
\* price, and has been repeated
C18_Witness ==
  /\ tool_call.returned.st = "val"
  /\ tool_call.repeated = tool_call.returned
  /\ tool_call.price_max = Val(99)
  /\ Len(tool_call.returned.v) >= 2
  /\ tool_call.returned.v[1].price = tool_call.returned.v[2].price
  /\ \E it \in Range(PRODUCTS) :
       /\ it.price > 99
       /\ MatchesIgnoringCeiling(it, Tokens(Lower(tool_call.query)),
                                 tool_call.price_max, tool_call.tags)

\* the final message confirms a cancellation
Confirms(message) == message.st = "val" /\ message.v.branch = "cancel_confirmed"

\* C19: in deterministic mode, whenever the final message (or the reply
\* returned) confirms a cancellation, intent is order_help, both the order
\* id and the e-mail were extracted, the order in the state matches both,
\* the message names that order, policy_decision.cancel_allowed is true,
\* and the elapsed time at the evaluation time is at most 60 minutes.
C19_ConfirmOnlyIfAllowed ==
  (~use_llm /\ (Confirms(state.final_message)
                \/ (result.st = "val" /\ Confirms(result.v.reply)))) =>
    /\ state.intent = Val("order_help")
    /\ state.order_id.st = "val" /\ state.email.st = "val"
    /\ state.order.st = "val"
    /\ Lower(state.order.v.order_id) = Lower(state.order_id.v)
    /\ Lower(state.order.v.email) = Lower(state.email.v)
    /\ state.final_message.v.order_id = state.order.v.order_id
    /\ state.policy_decision.st = "val"
    /\ state.policy_decision.v.cancel_allowed
    /\ eval_time.st = "val"
    /\ AtMostSixtyMinutes(ElapsedOfOrder)

\* C19 witness: a confirmation was returned for an order evaluated exactly
\* 60 minutes after its creation
C19_Witness ==
  /\ ~use_llm
  /\ pc = "returned"
  /\ Confirms(result.v.reply)
  /\ ElapsedOfOrder = [sec |-> 3600, us |-> 0]

====
